---- MODULE Spec2Model ----
(***************************************************************************)
(* Token lifecycle of the django-jwt-auth-service: refresh-token rotation  *)
(* and blacklisting, single-use password-reset tokens in Redis, and the    *)
(* DRF cache throttles guarding login / forgot-password.                   *)
(*                                                                         *)
(* Requests are handled concurrently.  A request occupies a slot and moves *)
(* through the store round trips of its handler one step at a time; a      *)
(* finished request stays visible in its slot (pc = "done") until the slot *)
(* is taken by a new request.                                              *)
(***************************************************************************)
EXTENDS Integers, Sequences, FiniteSets, TLC

VARIABLES
    now,             \* wall clock, seconds
    users,           \* accounts.User rows: user id -> [pw, active]
    minted,          \* refresh tokens ever signed: jti -> [user, exp]
    outstanding,     \* token_blacklist.OutstandingToken rows (jti)
    blacklist,       \* token_blacklist.BlacklistedToken rows (jti)
    access,          \* access tokens ever signed: set of [user, exp]
    rotateOutstands, \* installed simplejwt registers a rotated token as outstanding
    redisUp,         \* the Redis server of REDIS_URL answers
    store,           \* Redis password_reset:<token> keys: sequence of [uid, exp, live]
    cache,           \* throttle cache: key -> [hist, exp]
    admitted,        \* per throttle key, the times of the requests the throttle let pass
    logins,          \* per caller address, the arrival times of its login requests
    loggedOut,       \* refresh tokens for which a logout was answered 200
    slots,           \* requests in flight or just finished
    nreq             \* requests started so far

vars == <<now, users, minted, outstanding, blacklist, access, rotateOutstands,
          redisUp, store, cache, admitted, logins, loggedOut, slots, nreq>>

(***************************************************************************)
(* Bounds of the exploration                                               *)
(***************************************************************************)
MaxJti      == 3
MaxTokReq   == 4
MaxRaceReq  == 2
MaxResetRaceReq == 4
MaxThrJti   == 1
MaxThrRaceReq == 6
MaxResetTok == 2
MaxThrReq   == 6

Users    == {1, 2}
Slots    == {1, 2}
Addrs    == {1, 2}
Passwords == {1, 2}

(***************************************************************************)
(* Program constants                                                       *)
(***************************************************************************)
AccessLifetime  == 3600
RefreshLifetime == 604800
token_ttl       == 600

\* request-field encodings
Blank     == -1     \* field missing or empty: the serializer field rejects it
Malformed == 0      \* a string that is not a token this service signed
NoAuth    == [user |-> 0, iat |-> 0, exp |-> 0]   \* no Authorization header

(***************************************************************************)
(* e-mail spellings.  1 and 2 are the stored addresses of users 1 and 2,   *)
(* 3 is an address of nobody, 4 is user 1's address in another case and    *)
(* with surrounding blanks.  0 is "no email field".                        *)
(***************************************************************************)
NoEmail == 0

Normalize(e) == IF e = 4 THEN 1 ELSE e

\* User.objects.get(email=...) as ModelBackend.authenticate does it: exact match
UserByEmailExact(e) == IF e \in Users THEN e ELSE 0

\* User.objects.filter(email__iexact=email.strip().lower(), is_active=True)
ActiveUserByEmail(e) ==
    IF Normalize(e) \in Users /\ users[Normalize(e)].active THEN Normalize(e) ELSE 0

(***************************************************************************)
(* Request slots                                                           *)
(***************************************************************************)
Idle == [op |-> "idle", pc |-> "done", ip |-> 0, auth |-> NoAuth, user |-> 0, email |-> NoEmail,
         pw |-> 0, tok |-> 0, i |-> 0, hist |-> <<>>, tnow |-> 0, uid |-> 0,
         deny |-> FALSE, wait |-> 0, client |-> FALSE, ret |-> 0,
         live |-> FALSE, bl |-> FALSE, lo |-> FALSE, prior |-> 0, cE |-> 0, cIp |-> 0, cA |-> 0,
         keys |-> {}, mark |-> 0, seen |-> {}, cur |-> 0, cnt |-> 0, gone |-> 0, at |-> 0, had |-> FALSE, werr |-> FALSE, down |-> FALSE,
         status |-> 0, code |-> "", out |-> 0]

Free(s)     == slots[s].pc = "done"
Done(s)     == slots[s].op # "idle" /\ slots[s].pc = "done"
InFlight(s) == slots[s].pc # "done"

\* the response leaves; the handler's locals are gone
Respond(s, st, cd, o) ==
    [slots EXCEPT ![s].pc = "done", ![s].status = st, ![s].code = cd, ![s].out = o,
                  ![s].i = 0, ![s].hist = <<>>, ![s].tnow = 0, ![s].client = FALSE,
                  ![s].keys = {}, ![s].seen = {}, ![s].cur = 0]

\* Response envelope of auth_service.utils.response_utils
success_response(s, o)      == Respond(s, 200, "00", o)
error_response(s, cd, st)   == Respond(s, st, cd, 0)
\* an exception no handler turns into a response: Django answers 500, no envelope
Unhandled(s)                == Respond(s, 500, "none", 0)
\* an APIException rendered by DRF's default exception handler: {"detail": ...}
ApiException(s, st)         == Respond(s, st, "detail", 0)
\* error_response after a Redis call of the handler failed (or found no client);
\* down remembers that the handler met the outage
Outage(s, cd)               == [error_response(s, cd, 500) EXCEPT ![s].down = TRUE]

(***************************************************************************)
(* Token signer / verifier (rest_framework_simplejwt, as configured by     *)
(* SIMPLE_JWT)                                                             *)
(***************************************************************************)
IsJti(t) == t \in 1..Len(minted)

\* a verification that skips check_exp
Verifies_NoExpiry(t) == IsJti(t)

\* Token.__init__(token): decode + check_exp; TokenError when it fails
Verifies(t) == IsJti(t) /\ minted[t].exp > now

\* BlacklistMixin.check_blacklist
IsBlacklisted(t) == t \in blacklist

\* an authentication that refuses the access tokens of a user who has a blacklisted
\* refresh token
AccessValid_Session(a) ==
    /\ a \in access /\ a.exp > now /\ users[a.user].active
    /\ ~ \E t \in blacklist : minted[t].user = a.user

\* JWTAuthentication.authenticate on the Authorization header
AccessValid(a) == a \in access /\ a.exp > now /\ users[a.user].active

\* requests in flight that may still sign a new refresh token
Minting == {x \in Slots : InFlight(x) /\ (slots[x].op = "login" \/ (slots[x].op = "refresh" /\ slots[x].live))}

(***************************************************************************)
(* Rate limiter: rest_framework throttles over the Django cache            *)
(***************************************************************************)
\* DEFAULT_THROTTLE_RATES, parsed by SimpleRateThrottle.parse_rate
num_requests(scope) ==
    CASE scope = "login" -> 5
      [] scope = "password_reset" -> 3
      [] scope = "auth_critical" -> 10
      [] OTHER -> 100

duration(scope) ==
    CASE scope = "login" -> 60
      [] scope = "password_reset" -> 60
      [] OTHER -> 3600

Scopes == {"login", "password_reset", "auth_critical", "anon"}

\* throttle_classes of the @action of each endpoint.  refresh and logout carry none of
\* their own; the DEFAULT_THROTTLE_CLASSES they inherit (anon 100/hour, user 1000/hour)
\* are far above the request counts explored and are left out.
ThrottlesOf(op) ==
    CASE op = "login"  -> <<"login", "anon">>
      [] op = "forgot" -> <<"password_reset", "anon">>
      [] op = "reset"  -> <<"auth_critical">>
      [] OTHER -> <<>>

NoKey == [scope |-> "none", kind |-> "none", id |-> 0]
ThrottleKeys == [scope : Scopes, kind : {"email", "ip"}, id : 1..3]
NoEntry == [hist |-> <<>>, exp |-> 0]

\* AnonRateThrottle.get_cache_key: authenticated requests are not throttled
AnonKey(scope, r) ==
    IF r.user # 0 THEN NoKey ELSE [scope |-> scope, kind |-> "ip", id |-> r.ip]

\* a key that ignores the e-mail and always uses the caller address
EmailKey_ByAddress(scope, r) ==
    IF r.user # 0 THEN [scope |-> scope, kind |-> "email", id |-> r.user] ELSE AnonKey(scope, r)

\* a key that hashes the missing e-mail as an identity of its own instead of falling back
EmailKey_NoFallback(scope, r) ==
    IF r.user # 0 THEN [scope |-> scope, kind |-> "email", id |-> r.user]
    ELSE IF r.email \in {NoEmail, Blank} THEN [scope |-> scope, kind |-> "email", id |-> 3]
    ELSE [scope |-> scope, kind |-> "email", id |-> Normalize(r.email)]

\* EmailRateThrottle.get_cache_key; the md5 of the identity is the key's id
EmailKey(scope, r) ==
    IF r.user # 0 THEN [scope |-> scope, kind |-> "email", id |-> r.user]
    ELSE IF r.email \in {NoEmail, Blank} THEN AnonKey(scope, r)
    ELSE [scope |-> scope, kind |-> "email", id |-> Normalize(r.email)]

get_cache_key(scope, r) ==
    IF scope \in {"login", "password_reset"} THEN EmailKey(scope, r) ELSE AnonKey(scope, r)

\* cache.get(key, []) on an entry written with timeout = duration
CacheGet(k) == IF cache[k].exp > now THEN cache[k].hist ELSE <<>>

\* a history that keeps every entry
Prune_None(h, limit) == h

\* while self.history and self.history[-1] <= self.now - self.duration: pop()
RECURSIVE Prune(_, _)
Prune(h, limit) ==
    IF h # <<>> /\ h[Len(h)] <= limit THEN Prune(SubSeq(h, 1, Len(h) - 1), limit) ELSE h

\* SimpleRateThrottle.wait, rounded up as the Retry-After header is; 0 stands for None
WaitOf(scope, h, t) ==
    LET remaining == IF h # <<>> THEN duration(scope) - (t - h[Len(h)]) ELSE duration(scope)
        available == num_requests(scope) - Len(h) + 1
    IN IF available <= 0 THEN 0 ELSE (remaining + available - 1) \div available

Max(a, b) == IF a >= b THEN a ELSE b

\* first step of the view method once dispatch has let the request through
BodyPc(op) ==
    CASE op = "login"   -> "login"
      [] op = "refresh" -> "validate"
      [] op = "logout"  -> "logout"
      [] op = "forgot"  -> "forgot"
      [] op = "protected" -> "protected"
      [] OTHER          -> "reset"

\* APIView.check_throttles moves to the next throttle; after the last one a request
\* that any throttle refused is answered 429 (Throttled, with Retry-After)
NextThrottle(s, r) ==
    IF r.i < Len(ThrottlesOf(r.op)) THEN [slots EXCEPT ![s] = [r EXCEPT !.i = r.i + 1, !.pc = "thr_get"]]
    ELSE IF r.deny THEN [slots EXCEPT ![s] = [r EXCEPT !.pc = "done", !.status = 429, !.code = "detail",
                                                       !.i = 0, !.hist = <<>>, !.tnow = 0]]
    ELSE [slots EXCEPT ![s] = [r EXCEPT !.pc = BodyPc(r.op)]]

\* SimpleRateThrottle.allow_request up to the decision.  The cache is the Redis of
\* REDIS_URL (django_redis, exceptions not ignored): an unreachable server raises.
ThrottleGet(s) ==
    /\ slots[s].pc = "thr_get"
    /\ LET r     == slots[s]
           scope == ThrottlesOf(r.op)[r.i]
           k     == get_cache_key(scope, r)
           h     == Prune(CacheGet(k), now - duration(scope))
       IN slots' = IF k = NoKey THEN NextThrottle(s, r)
                   ELSE IF ~redisUp THEN Unhandled(s)
                   ELSE IF Len(h) >= num_requests(scope)
                        THEN NextThrottle(s, [r EXCEPT !.deny = TRUE,
                                                       !.wait = Max(r.wait, WaitOf(scope, h, now))])
                        ELSE [slots EXCEPT ![s].hist = h, ![s].tnow = now, ![s].pc = "thr_set"]
    /\ UNCHANGED <<now, users, minted, outstanding, blacklist, access, rotateOutstands,
                   redisUp, store, cache, admitted, logins, loggedOut, nreq>>

\* SimpleRateThrottle.throttle_success
ThrottleSet(s) ==
    /\ slots[s].pc = "thr_set"
    /\ LET r     == slots[s]
           scope == ThrottlesOf(r.op)[r.i]
           k     == get_cache_key(scope, r)
       IN IF ~redisUp
            THEN /\ slots' = Unhandled(s)
                 /\ UNCHANGED <<cache, admitted>>
            ELSE /\ cache' = [cache EXCEPT ![k] = [hist |-> <<r.tnow>> \o r.hist,
                                                   exp |-> now + duration(scope)]]
                 /\ admitted' = [admitted EXCEPT ![k] = Append(@, r.tnow)]
                 /\ slots' = NextThrottle(s, [r EXCEPT !.hist = <<>>])
    /\ UNCHANGED <<now, users, minted, outstanding, blacklist, access, rotateOutstands,
                   redisUp, store, logins, loggedOut, nreq>>

Init ==
    /\ now = 0
    /\ users = [u \in Users |-> [pw |-> 1, active |-> TRUE]]
    /\ minted = <<>>
    /\ outstanding = {}
    /\ blacklist = {}
    /\ access = {}
    /\ rotateOutstands \in BOOLEAN
    /\ redisUp = TRUE
    /\ store = <<>>
    /\ cache = [k \in ThrottleKeys |-> NoEntry]
    /\ admitted = [k \in ThrottleKeys |-> <<>>]
    /\ logins = [a \in Addrs |-> <<>>]
    /\ loggedOut = {}
    /\ slots = [s \in Slots |-> Idle]
    /\ nreq = 0

(***************************************************************************)
(* Dispatch: APIView.initial (authentication, permissions, throttles)      *)
(***************************************************************************)
NeedsLogin(op) == op \in {"logout", "protected"}

\* the request r arrives in slot s.  A bearer token that does not verify is answered 401
\* by JWTAuthentication before anything else; IsAuthenticated answers 401 to anonymous
\* callers; an endpoint with throttle_classes runs them before the view method.
Arrive(s, r) ==
    LET u  == IF r.auth = NoAuth THEN 0 ELSE r.auth.user
        r1 == [r EXCEPT !.user = u, !.at = now]
    IN IF r.auth # NoAuth /\ ~AccessValid(r.auth)
         THEN [slots EXCEPT ![s] = [r1 EXCEPT !.user = 0, !.pc = "done", !.status = 401, !.code = "detail"]]
       ELSE IF NeedsLogin(r.op) /\ u = 0
         THEN [slots EXCEPT ![s] = [r1 EXCEPT !.pc = "done", !.status = 401, !.code = "detail"]]
       ELSE IF ThrottlesOf(r.op) # <<>>
         THEN [slots EXCEPT ![s] = [r1 EXCEPT !.pc = "thr_get", !.i = 1]]
       ELSE [slots EXCEPT ![s] = [r1 EXCEPT !.pc = BodyPc(r.op)]]

Bearers == access \cup {NoAuth}

\* number of the times in h that lie less than d seconds back
Recent(h, d) == Cardinality({x \in 1..Len(h) : h[x] > now - d})

\* what a throttle computing key k would count right now
Count(k) == Len(Prune(CacheGet(k), now - duration(k.scope)))

\* bookkeeping for the properties: the counters as they stand when r arrives
Counted(r) ==
    LET scope == ThrottlesOf(r.op)[1]
    IN [r EXCEPT !.cE  = IF r.email \in {NoEmail, Blank} THEN 0
                         ELSE Count([scope |-> scope, kind |-> "email", id |-> Normalize(r.email)]),
                 !.cIp = Count([scope |-> scope, kind |-> "ip", id |-> r.ip]),
                 !.cA  = Count([scope |-> "anon", kind |-> "ip", id |-> r.ip])]

(***************************************************************************)
(* POST /auth/login                                                        *)
(***************************************************************************)
StartLogin(s, ip, a, e, p) ==
    /\ Free(s)
    /\ Len(minted) + Cardinality(Minting) < MaxJti
    /\ slots' = Arrive(s, Counted([Idle EXCEPT !.op = "login", !.ip = ip, !.auth = a, !.email = e, !.pw = p,
                                                !.prior = Recent(logins[ip], duration("login"))]))
    /\ logins' = [logins EXCEPT ![ip] = Append(@, now)]
    /\ UNCHANGED <<now, users, minted, outstanding, blacklist, access, rotateOutstands,
                   redisUp, store, cache, admitted, loggedOut>>

\* LoginSerializer(data).is_valid(): a missing field is a ValidationError (the view answers
\* 401/"08"); TokenObtainPairSerializer.validate raises AuthenticationFailed on bad
\* credentials, which DRF renders as 401 {"detail"}; otherwise RefreshToken.for_user
\* signs the pair and records the OutstandingToken row.
\* a failure that tells an unknown e-mail from a wrong password
LoginFailure_Telling(s, u) == IF u = 0 THEN error_response(s, "08", 404) ELSE ApiException(s, 401)

\* TokenObtainPairSerializer.validate: authenticate() gave no active user, whatever the
\* reason; AuthenticationFailed leaves is_valid() and DRF answers 401
LoginFailure(s, u) == ApiException(s, 401)

LoginBody(s) ==
    /\ slots[s].op = "login" /\ slots[s].pc = "login"
    /\ LET r   == slots[s]
           u   == UserByEmailExact(r.email)
           new == Len(minted) + 1
       IN IF r.email \in {NoEmail, Blank} \/ r.pw = Blank
            THEN /\ slots' = error_response(s, "08", 401)
                 /\ UNCHANGED <<minted, outstanding, access>>
          ELSE IF u = 0 \/ ~users[u].active \/ users[u].pw # r.pw
            THEN /\ slots' = LoginFailure(s, u)
                 /\ UNCHANGED <<minted, outstanding, access>>
          ELSE /\ minted' = Append(minted, [user |-> u, iat |-> now, exp |-> now + RefreshLifetime])
               /\ outstanding' = outstanding \cup {new}
               /\ access' = access \cup {[user |-> u, iat |-> now, exp |-> now + AccessLifetime]}
               /\ slots' = success_response(s, new)
    /\ UNCHANGED <<now, users, blacklist, rotateOutstands, redisUp, store, cache, admitted, logins, loggedOut, nreq>>

(***************************************************************************)
(* POST /auth/refresh                                                      *)
(***************************************************************************)
Acceptable(t) == Verifies(t) /\ ~IsBlacklisted(t)

StartRefresh(s, t) ==
    /\ Free(s)
    /\ Acceptable(t) => Len(minted) + Cardinality(Minting) < MaxJti
    /\ slots' = Arrive(s, [Idle EXCEPT !.op = "refresh", !.tok = t, !.live = Acceptable(t),
                                        !.bl = IsBlacklisted(t), !.lo = (t \in loggedOut)])
    /\ UNCHANGED <<now, users, minted, outstanding, blacklist, access, rotateOutstands,
                   redisUp, store, cache, admitted, logins, loggedOut>>

\* RefreshTokenSerializer(data=request.data).is_valid(), up to RefreshToken(attrs["refresh"]):
\* a blank field is a ValidationError (is_valid() is False, the view answers 401/"09");
\* a token that does not verify or is blacklisted raises TokenError, which is_valid()
\* does not catch and the view does not handle.
RefreshValidate(s) ==
    /\ slots[s].op = "refresh" /\ slots[s].pc = "validate"
    /\ slots' = IF slots[s].tok = Blank THEN error_response(s, "09", 401)
                ELSE IF ~Verifies(slots[s].tok) \/ IsBlacklisted(slots[s].tok) THEN Unhandled(s)
                ELSE [slots EXCEPT ![s].pc = "rotate"]
    /\ UNCHANGED <<now, users, minted, outstanding, blacklist, access, rotateOutstands,
                   redisUp, store, cache, admitted, logins, loggedOut, nreq>>

\* rotation with BLACKLIST_AFTER_ROTATION switched off
BlacklistAfterRotation_Off(old) == blacklist

\* BLACKLIST_AFTER_ROTATION = True: refresh.blacklist() on the presented token
BlacklistAfterRotation(old) == blacklist \cup {old}

\* the rest of TokenRefreshSerializer.validate under ROTATE_REFRESH_TOKENS and
\* BLACKLIST_AFTER_ROTATION: refresh.blacklist() (get_or_create of both rows), then a new
\* jti/exp/iat, then the view's success_response
RefreshRotate(s) ==
    /\ slots[s].op = "refresh" /\ slots[s].pc = "rotate"
    /\ LET old == slots[s].tok
           new == Len(minted) + 1
           u   == minted[old].user
       IN /\ blacklist' = BlacklistAfterRotation(old)
          /\ outstanding' = outstanding \cup {old} \cup (IF rotateOutstands THEN {new} ELSE {})
          /\ minted' = Append(minted, [user |-> u, iat |-> now, exp |-> now + RefreshLifetime])
          /\ access' = access \cup {[user |-> u, iat |-> now, exp |-> now + AccessLifetime]}
          /\ slots' = success_response(s, new)
    /\ UNCHANGED <<now, users, rotateOutstands, redisUp, store, cache, admitted, logins, loggedOut, nreq>>

(***************************************************************************)
(* POST /auth/logout                                                       *)
(***************************************************************************)
StartLogout(s, a, t) ==
    /\ Free(s)
    /\ slots' = Arrive(s, [Idle EXCEPT !.op = "logout", !.auth = a, !.tok = t,
                                        !.bl = IsBlacklisted(t), !.lo = (t \in loggedOut)])
    /\ UNCHANGED <<now, users, minted, outstanding, blacklist, access, rotateOutstands,
                   redisUp, store, cache, admitted, logins, loggedOut>>

\* a logout that un-blacklists a token it finds blacklisted
logout_user_Toggle(t) ==
    IF IsJti(t) /\ t \in outstanding
      THEN (IF t \in blacklist THEN blacklist \ {t} ELSE blacklist \cup {t})
      ELSE blacklist

\* a logout that blacklists every outstanding token of the token's user
logout_user_AllSessions(t) ==
    IF IsJti(t) /\ t \in outstanding
      THEN blacklist \cup {x \in outstanding : minted[x].user = minted[t].user}
      ELSE blacklist

\* AuthenticationService.logout_user, method 1 (lines 147-161): the token is decoded
\* without verifying signature or expiry; a blacklist row is created (get_or_create on
\* a one-to-one key) when an OutstandingToken row has the jti.
logout_user(t) == IF IsJti(t) /\ t \in outstanding THEN blacklist \cup {t} ELSE blacklist

\* what a database call of the blacklist step may do: succeed; raise and succeed when
\* method 2 repeats it; raise both times.  A token that does not decode reaches no
\* database call.
WriteOutcomes == {"ok", "retry", "fail"}

\* a logout_user that reports the failure of its blacklist step
logout_returns_Strict(failed) == ~failed

\* logout_user's return value, lines 163-182: every exception is swallowed
logout_returns(failed) == TRUE

\* the view, then logout_user.  Method 2 (RefreshToken().blacklist(), lines 166-176)
\* runs when method 1 raised: it get_or_creates both the outstanding and the blacklist
\* row of a token that decodes.
LogoutBody(s) ==
    /\ slots[s].op = "logout" /\ slots[s].pc = "logout"
    /\ IF slots[s].tok = Blank
         THEN /\ slots' = error_response(s, "07", 400)
              /\ UNCHANGED <<blacklist, outstanding, loggedOut>>
         ELSE \E w \in (IF IsJti(slots[s].tok) THEN WriteOutcomes ELSE {"ok"}) :
              LET t      == slots[s].tok
                  failed == ~IsJti(t) \/ w # "ok"
                  r      == IF logout_returns(failed) THEN success_response(s, 0)
                            ELSE error_response(s, "10", 500)
              IN /\ blacklist' = IF w = "ok" THEN logout_user(t)
                                 ELSE IF w = "retry" /\ IsJti(t) THEN blacklist \cup {t}
                                 ELSE blacklist
                 /\ outstanding' = IF w = "retry" /\ IsJti(t) THEN outstanding \cup {t}
                                   ELSE outstanding
                 /\ loggedOut' = IF logout_returns(failed)
                                   THEN loggedOut \cup ({t} \cap (1..Len(minted))) ELSE loggedOut
                 /\ slots' = [r EXCEPT ![s].werr = failed]
    /\ UNCHANGED <<now, users, minted, access, rotateOutstands,
                   redisUp, store, cache, admitted, logins, nreq>>

(***************************************************************************)
(* GET /auth/protected-test                                                *)
(***************************************************************************)
StartProtected(s, a) ==
    /\ Free(s)
    /\ slots' = Arrive(s, [Idle EXCEPT !.op = "protected", !.auth = a])
    /\ UNCHANGED <<now, users, minted, outstanding, blacklist, access, rotateOutstands,
                   redisUp, store, cache, admitted, logins, loggedOut>>

\* the profile of request.user in the envelope; out is the user
ProtectedBody(s) ==
    /\ slots[s].op = "protected" /\ slots[s].pc = "protected"
    /\ slots' = success_response(s, slots[s].user)
    /\ UNCHANGED <<now, users, minted, outstanding, blacklist, access, rotateOutstands,
                   redisUp, store, cache, admitted, logins, loggedOut, nreq>>

(***************************************************************************)
(* Password-reset token store (PasswordResetService over Redis)            *)
(***************************************************************************)
IsResetTok(t) == t \in 1..Len(store)

\* a GET that answers for every token ever generated, deleted and expired ones too
RedisGet_Any(t) == IF IsResetTok(t) THEN store[t].uid ELSE 0

\* a GET that still finds a key whose TTL has run out
RedisGet_NoExpiry(t) == IF IsResetTok(t) /\ store[t].live THEN store[t].uid ELSE 0

\* redis GET password_reset:<token>: the user id, or 0 (None) when the key is absent
RedisGet(t) == IF IsResetTok(t) /\ store[t].live /\ store[t].exp > now THEN store[t].uid ELSE 0

\* a DEL that leaves the key in place
RedisDelete_Kept(t) == store

\* redis DEL
RedisDelete(t) == IF IsResetTok(t) THEN [store EXCEPT ![t].live = FALSE] ELSE store

\* redis SCAN password_reset:*: the keys present when the scan begins
ScanKeys == {t \in 1..Len(store) : RedisGet(t) # 0}

\* an invalidation that deletes nothing
invalidate_user_tokens_None(u, k) == store

\* invalidate_user_tokens, lines 127-129: the key k, whose GET gave the user u, is
\* deleted; the answer of DEL is not looked at
invalidate_user_tokens(u, k) == RedisDelete(k)

(***************************************************************************)
(* POST /auth/forgot-password                                              *)
(***************************************************************************)
StartForgot(s, ip, a, e) ==
    /\ Free(s)
    /\ ActiveUserByEmail(e) # 0 =>
          Len(store) + Cardinality({x \in Slots : InFlight(x) /\ slots[x].op = "forgot"}) < MaxResetTok
    /\ slots' = Arrive(s, Counted([Idle EXCEPT !.op = "forgot", !.ip = ip, !.auth = a, !.email = e]))
    /\ UNCHANGED <<now, users, minted, outstanding, blacklist, access, rotateOutstands,
                   redisUp, store, cache, admitted, logins, loggedOut>>

\* ForgotPasswordSerializer (400/"07" unless the e-mail is an active user's), then
\* PasswordResetService.__init__ pings Redis and keeps no client when that fails
ForgotBody(s) ==
    /\ slots[s].op = "forgot" /\ slots[s].pc = "forgot"
    /\ slots' = IF ActiveUserByEmail(slots[s].email) = 0 THEN error_response(s, "07", 400)
                ELSE [slots EXCEPT ![s].pc = "forgot_store", ![s].client = redisUp,
                                   ![s].down = ~redisUp]
    /\ UNCHANGED <<now, users, minted, outstanding, blacklist, access, rotateOutstands,
                   redisUp, store, cache, admitted, logins, loggedOut, nreq>>

\* generate_reset_token + initiate_password_reset + the view's try/except: the token is
\* returned whether or not a client was there to store it; a failing SETEX or a user
\* gone meanwhile is answered 500/"10"
ForgotStore(s) ==
    /\ slots[s].op = "forgot" /\ slots[s].pc = "forgot_store"
    /\ LET u   == ActiveUserByEmail(slots[s].email)
           new == Len(store) + 1
       IN IF slots[s].client /\ ~redisUp
            THEN /\ slots' = Outage(s, "10")
                 /\ UNCHANGED store
          ELSE IF u = 0
            THEN /\ slots' = error_response(s, "10", 500)
                 /\ UNCHANGED store
            ELSE /\ store' = Append(store, [uid |-> u, gen |-> now, exp |-> now + token_ttl,
                                               live |-> slots[s].client,
                                               put |-> slots[s].client])
                 /\ slots' = success_response(s, new)
    /\ UNCHANGED <<now, users, minted, outstanding, blacklist, access, rotateOutstands,
                   redisUp, cache, admitted, logins, loggedOut, nreq>>

(***************************************************************************)
(* POST /auth/reset-password                                               *)
(***************************************************************************)
StartReset(s, ip, a, t, p) ==
    /\ Free(s)
    /\ slots' = Arrive(s, [Idle EXCEPT !.op = "reset", !.ip = ip, !.auth = a, !.tok = t, !.pw = p])
    /\ UNCHANGED <<now, users, minted, outstanding, blacklist, access, rotateOutstands,
                   redisUp, store, cache, admitted, logins, loggedOut>>

\* a handler that deletes the presented token before it validates the input
ResetBody_ConsumeFirst(s) ==
    /\ slots[s].op = "reset" /\ slots[s].pc = "reset"
    /\ slots' = IF slots[s].tok = Blank \/ slots[s].pw = Blank THEN error_response(s, "07", 400)
                ELSE [slots EXCEPT ![s].pc = "reset_get", ![s].client = redisUp,
                                   ![s].live = (RedisGet(slots[s].tok) # 0),
                                   ![s].had = (IsResetTok(slots[s].tok) /\ store[slots[s].tok].live),
                                   ![s].at = now, ![s].down = ~redisUp]
    /\ store' = RedisDelete(slots[s].tok)
    /\ UNCHANGED <<now, users, minted, outstanding, blacklist, access, rotateOutstands,
                   redisUp, cache, admitted, logins, loggedOut, nreq>>

\* ResetPasswordSerializer (400/"07"), then PasswordResetBusinessService(): the ping.
\* verify_and_consume_token begins here; live records whether the token resolved then.
ResetBody(s) ==
    /\ slots[s].op = "reset" /\ slots[s].pc = "reset"
    /\ slots' = IF slots[s].tok = Blank \/ slots[s].pw = Blank THEN error_response(s, "07", 400)
                ELSE [slots EXCEPT ![s].pc = "reset_get", ![s].client = redisUp,
                                   ![s].live = (RedisGet(slots[s].tok) # 0),
                                   ![s].had = (IsResetTok(slots[s].tok) /\ store[slots[s].tok].live),
                                   ![s].at = now, ![s].down = ~redisUp]
    /\ UNCHANGED <<now, users, minted, outstanding, blacklist, access, rotateOutstands,
                   redisUp, store, cache, admitted, logins, loggedOut, nreq>>

\* verify_and_consume_token, lines 80-90: no client or no key is None, which
\* complete_password_reset raises and the view answers 500/"12"; so is a failing GET
ResetGet(s) ==
    /\ slots[s].op = "reset" /\ slots[s].pc = "reset_get"
    /\ slots' = IF ~slots[s].client \/ ~redisUp THEN Outage(s, "12")
                ELSE IF RedisGet(slots[s].tok) = 0 THEN error_response(s, "12", 500)
                ELSE [slots EXCEPT ![s].pc = "reset_consume", ![s].uid = RedisGet(slots[s].tok)]
    /\ UNCHANGED <<now, users, minted, outstanding, blacklist, access, rotateOutstands,
                   redisUp, store, cache, admitted, logins, loggedOut, nreq>>

\* a lookup that ignores is_active
ActiveUserById_Any(uid) == uid

\* User.objects.get(id=..., is_active=True); 0 stands for DoesNotExist
ActiveUserById(uid) == IF users[uid].active THEN uid ELSE 0

\* a reset that leaves the stored password as it was
set_password_Ignored(u, p) == users

\* user.set_password(new_password); user.save()
set_password(u, p) == [users EXCEPT ![u].pw = p]

\* a reset that also blacklists the refresh tokens of the user
ResetConsume_RevokeSessions(s) ==
    /\ slots[s].op = "reset" /\ slots[s].pc = "reset_consume"
    /\ LET r == slots[s]
       IN IF ~redisUp
            THEN /\ slots' = Outage(s, "12")
                 /\ UNCHANGED <<store, users>>
          ELSE IF ActiveUserById(r.uid) = 0
            THEN /\ store' = RedisDelete(r.tok)
                 /\ slots' = error_response(s, "12", 500)
                 /\ UNCHANGED users
          ELSE /\ store' = RedisDelete(r.tok)
               /\ users' = set_password(r.uid, r.pw)
               /\ slots' = [slots EXCEPT ![s].pc = "reset_scan", ![s].ret = r.uid,
                                          ![s].prior = users[r.uid].pw]
    /\ blacklist' = blacklist \cup {t \in outstanding : minted[t].user = slots[s].uid}
    /\ UNCHANGED <<now, minted, outstanding, access, rotateOutstands,
                   redisUp, cache, admitted, logins, loggedOut, nreq>>

\* verify_and_consume_token, lines 92-105 (the user row, DEL, return), then
\* set_password; prior remembers the password that was replaced
ResetConsume(s) ==
    /\ slots[s].op = "reset" /\ slots[s].pc = "reset_consume"
    /\ LET r == slots[s]
       IN IF ~redisUp
            THEN /\ slots' = Outage(s, "12")
                 /\ UNCHANGED <<store, users>>
          ELSE IF ActiveUserById(r.uid) = 0
            THEN /\ store' = RedisDelete(r.tok)
                 /\ slots' = error_response(s, "12", 500)
                 /\ UNCHANGED users
          ELSE /\ store' = RedisDelete(r.tok)
               /\ users' = set_password(r.uid, r.pw)
               /\ slots' = [slots EXCEPT ![s].pc = "reset_scan", ![s].ret = r.uid,
                                          ![s].prior = users[r.uid].pw]
    /\ UNCHANGED <<now, minted, outstanding, blacklist, access, rotateOutstands,
                   redisUp, cache, admitted, logins, loggedOut, nreq>>

\* invalidate_user_tokens(user.id), lines 118-125: the scan begins; a failing scan is
\* answered 500/"12".  mark remembers how many tokens had been generated by then.
ResetScan(s) ==
    /\ slots[s].op = "reset" /\ slots[s].pc = "reset_scan"
    /\ slots' = IF ~redisUp THEN Outage(s, "12")
                ELSE [slots EXCEPT ![s].pc = "reset_invalidate", ![s].keys = ScanKeys,
                                   ![s].mark = Len(store)]
    /\ UNCHANGED <<now, users, minted, outstanding, blacklist, access, rotateOutstands,
                   redisUp, store, cache, admitted, logins, loggedOut, nreq>>

\* keys set after the scan began, which the scan may or may not return
LateKeys(s) == {t \in ScanKeys : t > slots[s].mark /\ t \notin slots[s].seen}

\* head of the scan's loop, lines 125-127: the next key is read with GET, and a key of
\* the user goes on to DEL; when the scan is exhausted the count is returned and the
\* view answers 200.  A failing GET is answered 500/"12".
ResetInvalidate(s) ==
    /\ slots[s].op = "reset" /\ slots[s].pc = "reset_invalidate"
    /\ IF ~redisUp
         THEN slots' = Outage(s, "12")
         ELSE \/ /\ slots[s].keys = {}
                 /\ slots' = success_response(s, slots[s].uid)
              \/ \E k \in slots[s].keys \cup LateKeys(s) :
                    slots' = [slots EXCEPT ![s].keys = @ \ {k}, ![s].seen = @ \cup {k},
                                           ![s].cur = IF RedisGet(k) = slots[s].uid THEN k ELSE 0,
                                           ![s].pc = IF RedisGet(k) = slots[s].uid
                                                       THEN "reset_delete" ELSE "reset_invalidate"]
    /\ UNCHANGED <<now, users, minted, outstanding, blacklist, access, rotateOutstands,
                   redisUp, store, cache, admitted, logins, loggedOut, nreq>>

\* lines 128-129: DEL of the key just read and deleted_count += 1; gone counts the
\* keys that this DEL really removed.  A failing DEL is answered 500/"12".
ResetDelete(s) ==
    /\ slots[s].op = "reset" /\ slots[s].pc = "reset_delete"
    /\ IF ~redisUp
         THEN /\ slots' = Outage(s, "12")
              /\ UNCHANGED store
         ELSE /\ store' = invalidate_user_tokens(slots[s].uid, slots[s].cur)
              /\ slots' = [slots EXCEPT ![s].pc = "reset_invalidate", ![s].cur = 0,
                                        ![s].cnt = @ + 1,
                                        ![s].gone = @ + (IF RedisGet(slots[s].cur) # 0 THEN 1 ELSE 0)]
    /\ UNCHANGED <<now, users, minted, outstanding, blacklist, access, rotateOutstands,
                   redisUp, cache, admitted, logins, loggedOut, nreq>>

(***************************************************************************)
(* Environment                                                             *)
(***************************************************************************)
Advance(times) ==
    /\ \E t \in times : t > now /\ now' = t
    /\ UNCHANGED <<users, minted, outstanding, blacklist, access, rotateOutstands,
                   redisUp, store, cache, admitted, logins, loggedOut, slots, nreq>>

\* the admin site edits is_active of a user
SetActive ==
    /\ \E u \in Users, b \in BOOLEAN : b # users[u].active /\ users' = [users EXCEPT ![u].active = b]
    /\ UNCHANGED <<now, minted, outstanding, blacklist, access, rotateOutstands,
                   redisUp, store, cache, admitted, logins, loggedOut, slots, nreq>>

RedisFlip ==
    /\ redisUp' = ~redisUp
    /\ UNCHANGED <<now, users, minted, outstanding, blacklist, access, rotateOutstands,
                   store, cache, admitted, logins, loggedOut, slots, nreq>>

(***************************************************************************)
(* Specifications.  Each explores one part of the service: the requests it *)
(* sends and the instants its clock visits.                                *)
(***************************************************************************)
FirstFree == CHOOSE s \in Slots : Free(s) /\ \A x \in Slots : Free(x) => s <= x
SomeFree  == \E s \in Slots : Free(s)

DoThrottleGet     == \E s \in Slots : ThrottleGet(s)
DoThrottleSet     == \E s \in Slots : ThrottleSet(s)
DoLoginBody       == \E s \in Slots : LoginBody(s)
DoRefreshValidate == \E s \in Slots : RefreshValidate(s)
DoRefreshRotate   == \E s \in Slots : RefreshRotate(s)
DoProtectedBody   == \E s \in Slots : ProtectedBody(s)
DoLogoutBody      == \E s \in Slots : LogoutBody(s)
DoForgotBody      == \E s \in Slots : ForgotBody(s)
DoForgotStore     == \E s \in Slots : ForgotStore(s)
DoResetBody       == \E s \in Slots : ResetBody(s)
DoResetGet        == \E s \in Slots : ResetGet(s)
DoResetConsume    == \E s \in Slots : ResetConsume(s)
DoResetScan       == \E s \in Slots : ResetScan(s)
DoResetInvalidate == \E s \in Slots : ResetInvalidate(s)
DoResetDelete     == \E s \in Slots : ResetDelete(s)

\* --- refresh-token registry, one request at a time ---------------------------
Quiet == \A s \in Slots : ~InFlight(s)

RefreshInputs == {Blank, Malformed} \cup (1..Len(minted))

TokLogin ==
    /\ Quiet
    /\ \E e \in Users : StartLogin(FirstFree, 1, NoAuth, e, users[e].pw)
    /\ UNCHANGED nreq

TokRefresh ==
    /\ Quiet /\ nreq < MaxTokReq
    /\ \E t \in RefreshInputs : StartRefresh(FirstFree, t)
    /\ nreq' = nreq + 1

TokLogout ==
    /\ Quiet /\ nreq < MaxTokReq
    /\ \E a \in Bearers, t \in RefreshInputs : StartLogout(FirstFree, a, t)
    /\ nreq' = nreq + 1

NextTok ==
    \/ TokLogin \/ TokRefresh \/ TokLogout
    \/ DoThrottleGet \/ DoThrottleSet \/ DoLoginBody
    \/ DoRefreshValidate \/ DoRefreshRotate \/ DoLogoutBody

SpecTok == Init /\ [][NextTok]_vars

\* --- refresh-token registry, requests in flight together ----------------------
RaceLogin ==
    /\ SomeFree
    /\ \E e \in Users : StartLogin(FirstFree, 1, NoAuth, e, users[e].pw)
    /\ UNCHANGED nreq

RaceRefresh ==
    /\ SomeFree /\ nreq < MaxRaceReq
    /\ \E t \in RefreshInputs : StartRefresh(FirstFree, t)
    /\ nreq' = nreq + 1

RaceLogout ==
    /\ SomeFree /\ nreq < MaxRaceReq
    /\ \E a \in Bearers, t \in RefreshInputs : StartLogout(FirstFree, a, t)
    /\ nreq' = nreq + 1

NextTokRace ==
    \/ RaceLogin \/ RaceRefresh \/ RaceLogout
    \/ DoThrottleGet \/ DoThrottleSet \/ DoLoginBody
    \/ DoRefreshValidate \/ DoRefreshRotate \/ DoLogoutBody

SpecTokRace == Init /\ [][NextTokRace]_vars

\* --- password-reset token store, requests in flight together --------------------
\* The throttle round trips of a request read and write the cache only, which no
\* reset-store step touches; here they run to completion before any other step, so
\* the interleavings explored are those of the Redis and database round trips.
NoThrottling == \A s \in Slots : slots[s].pc \notin {"thr_get", "thr_set"}

RaceForgot ==
    /\ NoThrottling /\ SomeFree /\ nreq < MaxResetRaceReq
    /\ \E e \in {1, 2} : StartForgot(FirstFree, 1, NoAuth, e)
    /\ nreq' = nreq + 1

RaceReset ==
    /\ NoThrottling /\ SomeFree /\ nreq < MaxResetRaceReq
    /\ \E t \in 1..Len(store) : StartReset(FirstFree, 1, NoAuth, t, 2)
    /\ nreq' = nreq + 1

RaceTick == NoThrottling /\ Advance({token_ttl})

RaceStoreStep ==
    /\ NoThrottling
    /\ \/ DoForgotBody \/ DoForgotStore
       \/ DoResetBody \/ DoResetGet \/ DoResetConsume \/ DoResetScan \/ DoResetInvalidate
    \/ DoResetDelete

InitResetRace == Init /\ rotateOutstands

NextResetRace ==
    \/ RaceForgot \/ RaceReset \/ RaceTick
    \/ DoThrottleGet \/ DoThrottleSet \/ RaceStoreStep

SpecResetRace == InitResetRace /\ [][NextResetRace]_vars

\* --- what responses tell about accounts, one request at a time -------------------
MaxEnumReq == 3

\* e-mail 1 is an active user's, 3 is nobody's
EnumEmails == {1, 3}

EnumLogin ==
    /\ Quiet /\ nreq < MaxEnumReq
    /\ \E s \in Slots, e \in EnumEmails, p \in Passwords : StartLogin(s, 1, NoAuth, e, p)
    /\ nreq' = nreq + 1

EnumForgot ==
    /\ Quiet /\ nreq < MaxEnumReq
    /\ \E s \in Slots, e \in EnumEmails : StartForgot(s, 1, NoAuth, e)
    /\ nreq' = nreq + 1

NextEnum ==
    \/ EnumLogin \/ EnumForgot
    \/ DoThrottleGet \/ DoThrottleSet \/ DoLoginBody \/ DoForgotBody \/ DoForgotStore

SpecEnum == InitResetRace /\ [][NextEnum]_vars

\* --- passwords: resets in slot 1, logins in slot 2, one request at a time ---------
MaxPwReq == 4

PwForgot ==
    /\ Quiet /\ nreq < MaxPwReq
    /\ \E e \in {1, 2} : StartForgot(1, 1, NoAuth, e)
    /\ nreq' = nreq + 1

PwReset ==
    /\ Quiet /\ nreq < MaxPwReq
    /\ \E t \in (1..Len(store)) \cup {Blank}, p \in Passwords \cup {Blank} :
           StartReset(1, 1, NoAuth, t, p)
    /\ nreq' = nreq + 1

PwLogin ==
    /\ Quiet /\ nreq < MaxPwReq
    /\ \E e \in {1, 2}, p \in Passwords : StartLogin(2, 1, NoAuth, e, p)
    /\ nreq' = nreq + 1

PwRefresh ==
    /\ Quiet /\ nreq < MaxPwReq
    /\ \E t \in 1..Len(minted) : StartRefresh(2, t)
    /\ nreq' = nreq + 1

NextPw ==
    \/ PwForgot \/ PwReset \/ PwLogin \/ PwRefresh
    \/ DoRefreshValidate \/ DoRefreshRotate
    \/ DoThrottleGet \/ DoThrottleSet \/ DoLoginBody \/ DoForgotBody \/ DoForgotStore
    \/ DoResetBody \/ DoResetGet \/ DoResetConsume \/ DoResetScan \/ DoResetInvalidate
    \/ DoResetDelete

SpecPw == InitResetRace /\ [][NextPw]_vars

\* --- resets for accounts that the admin switches off and on ------------------------
MaxGoneReq == 4

GoneForgot ==
    /\ Quiet /\ nreq < MaxGoneReq
    /\ \E e \in {1, 2} : StartForgot(1, 1, NoAuth, e)
    /\ nreq' = nreq + 1

GoneReset ==
    /\ Quiet /\ nreq < MaxGoneReq
    /\ \E t \in 1..Len(store) : StartReset(1, 1, NoAuth, t, 2)
    /\ nreq' = nreq + 1

NextGone ==
    \/ GoneForgot \/ GoneReset \/ SetActive
    \/ DoThrottleGet \/ DoThrottleSet \/ DoForgotBody \/ DoForgotStore
    \/ DoResetBody \/ DoResetGet \/ DoResetConsume \/ DoResetScan \/ DoResetInvalidate
    \/ DoResetDelete

SpecGone == InitResetRace /\ [][NextGone]_vars

\* --- one throttle key over time: forgot-password from one address, one at a time ---
MaxWinReq == 5

WinTimes ==
    LET d == duration("password_reset") IN {d - 1, d, d + 1, 2 * d - 1, 2 * d}

WinForgot ==
    /\ Quiet /\ nreq < MaxWinReq
    /\ \E e \in EnumEmails : StartForgot(1, 1, NoAuth, e)
    /\ nreq' = nreq + 1

WinTick == Quiet /\ Advance(WinTimes)

NextWin ==
    \/ WinForgot \/ WinTick
    \/ DoThrottleGet \/ DoThrottleSet \/ DoForgotBody \/ DoForgotStore

SpecWin == InitResetRace /\ [][NextWin]_vars

\* --- the throttles while Redis goes away and comes back between requests -----------
MaxLimReq == 4

LimLogin ==
    /\ Quiet /\ nreq < MaxLimReq
    /\ StartLogin(1, 1, NoAuth, 1, users[1].pw)
    /\ nreq' = nreq + 1

LimForgot ==
    /\ Quiet /\ nreq < MaxLimReq
    /\ \E s \in Slots, a \in Bearers : StartForgot(s, 1, a, 1)
    /\ nreq' = nreq + 1

LimReset ==
    /\ Quiet /\ nreq < MaxLimReq
    /\ \E s \in Slots, a \in Bearers, t \in 1..Len(store) : StartReset(s, 1, a, t, 2)
    /\ nreq' = nreq + 1

LimFlip == Quiet /\ RedisFlip

NextLim ==
    \/ LimLogin \/ LimForgot \/ LimReset \/ LimFlip
    \/ DoThrottleGet \/ DoThrottleSet \/ DoLoginBody \/ DoForgotBody \/ DoForgotStore
    \/ DoResetBody \/ DoResetGet \/ DoResetConsume \/ DoResetScan \/ DoResetInvalidate
    \/ DoResetDelete

SpecLim == InitResetRace /\ [][NextLim]_vars

\* --- access tokens around a logout: logins and logouts in slot 1, protected in 2 ---
MaxOutReq == 4

OutTimes == {AccessLifetime - 1, AccessLifetime}

OutLogin ==
    /\ Quiet /\ nreq < MaxOutReq
    /\ \E u \in Users : StartLogin(1, 1, NoAuth, u, users[u].pw)
    /\ nreq' = nreq + 1

OutLogout ==
    /\ Quiet /\ nreq < MaxOutReq
    /\ \E a \in access, t \in 1..Len(minted) : StartLogout(1, a, t)
    /\ nreq' = nreq + 1

OutProtected ==
    /\ Quiet /\ nreq < MaxOutReq
    /\ \E a \in access : StartProtected(2, a)
    /\ nreq' = nreq + 1

OutTick == Quiet /\ Advance(OutTimes)

NextOut ==
    \/ OutLogin \/ OutLogout \/ OutProtected \/ OutTick
    \/ DoThrottleGet \/ DoThrottleSet \/ DoLoginBody \/ DoLogoutBody \/ DoProtectedBody

SpecOut == InitResetRace /\ [][NextOut]_vars

\* --- token lifetimes and the clock, one request at a time ------------------------
MaxExpReq == 3

\* the instants the clock visits: around the expiry of tokens issued at 0
ExpTimes == {AccessLifetime - 1, AccessLifetime, AccessLifetime + 1,
             RefreshLifetime - 1, RefreshLifetime, RefreshLifetime + 1}

ExpLogin ==
    /\ Quiet
    /\ StartLogin(1, 1, NoAuth, 1, users[1].pw)
    /\ UNCHANGED nreq

ExpRefresh ==
    /\ Quiet /\ nreq < MaxExpReq
    /\ \E t \in 1..Len(minted) : StartRefresh(1, t)
    /\ nreq' = nreq + 1

\* the finished protected request stays in slot 2, next to the last refresh in slot 1
ExpProtected ==
    /\ Quiet /\ nreq < MaxExpReq
    /\ \E a \in access : StartProtected(2, a)
    /\ nreq' = nreq + 1

ExpTick == Quiet /\ Advance(ExpTimes)

NextExp ==
    \/ ExpLogin \/ ExpRefresh \/ ExpProtected \/ ExpTick
    \/ DoThrottleGet \/ DoThrottleSet \/ DoLoginBody
    \/ DoRefreshValidate \/ DoRefreshRotate \/ DoProtectedBody

SpecExp == InitResetRace /\ [][NextExp]_vars

\* --- password-reset tokens and the clock, one request at a time -----------------
MaxTtlReq == 4

\* the instants the clock visits: around the TTL of a token generated at 0 or at 1
TtlTimes == {1, token_ttl - 1, token_ttl, token_ttl + 1, token_ttl + 2}

TtlForgot ==
    /\ Quiet /\ nreq < MaxTtlReq
    /\ \E e \in {1, 2} : StartForgot(FirstFree, 1, NoAuth, e)
    /\ nreq' = nreq + 1

TtlReset ==
    /\ Quiet /\ nreq < MaxTtlReq
    /\ \E t \in 1..Len(store) : StartReset(FirstFree, 1, NoAuth, t, 2)
    /\ nreq' = nreq + 1

TtlTick == Quiet /\ Advance(TtlTimes)

NextTtl ==
    \/ TtlForgot \/ TtlReset \/ TtlTick
    \/ DoThrottleGet \/ DoThrottleSet \/ DoForgotBody \/ DoForgotStore
    \/ DoResetBody \/ DoResetGet \/ DoResetConsume \/ DoResetScan \/ DoResetInvalidate
    \/ DoResetDelete

SpecTtl == InitResetRace /\ [][NextTtl]_vars

\* --- password-reset tokens while Redis comes and goes, one request at a time -----
MaxOutageReq == 3

OutageForgot ==
    /\ Quiet /\ nreq < MaxOutageReq
    /\ \E e \in {1, 2} : StartForgot(FirstFree, 1, NoAuth, e)
    /\ nreq' = nreq + 1

OutageReset ==
    /\ Quiet /\ nreq < MaxOutageReq
    /\ \E t \in 1..Len(store) : StartReset(FirstFree, 1, NoAuth, t, 2)
    /\ nreq' = nreq + 1

NextOutage ==
    \/ OutageForgot \/ OutageReset \/ RedisFlip
    \/ DoThrottleGet \/ DoThrottleSet \/ DoForgotBody \/ DoForgotStore
    \/ DoResetBody \/ DoResetGet \/ DoResetConsume \/ DoResetScan \/ DoResetInvalidate
    \/ DoResetDelete

SpecOutage == InitResetRace /\ [][NextOutage]_vars

\* --- rate limiter, one request at a time ---------------------------------------
\* the address-1 anon counter may already hold AnonPreload requests made at time 0
\* (earlier anonymous traffic of that address)
AnonPreload == num_requests("anon") - 1

Preloaded(n) == [x \in 1..n |-> 0]

InitThr ==
    /\ now = 0
    /\ users = [u \in Users |-> [pw |-> 1, active |-> TRUE]]
    /\ minted = <<>> /\ outstanding = {} /\ blacklist = {} /\ access = {}
    /\ rotateOutstands = TRUE
    /\ redisUp = TRUE
    /\ store = <<>>
    /\ \E n \in {0, AnonPreload} :
          /\ cache = [k \in ThrottleKeys |->
                        IF k = [scope |-> "anon", kind |-> "ip", id |-> 1] /\ n > 0
                          THEN [hist |-> Preloaded(n), exp |-> duration("anon")] ELSE NoEntry]
          /\ admitted = [k \in ThrottleKeys |->
                        IF k = [scope |-> "anon", kind |-> "ip", id |-> 1] THEN Preloaded(n) ELSE <<>>]
    /\ logins = [a \in Addrs |-> <<>>]
    /\ loggedOut = {}
    /\ logins = [a \in Addrs |-> <<>>]
    /\ loggedOut = {}
    /\ slots = [s \in Slots |-> Idle]
    /\ nreq = 0

ThrEmails == {NoEmail, 1, 3, 4}

ThrLogin ==
    /\ Quiet /\ nreq < MaxThrReq
    /\ \E a \in Bearers, e \in ThrEmails, p \in Passwords :
          /\ (e \in Users /\ p = users[e].pw) => Len(minted) < MaxThrJti
          /\ StartLogin(FirstFree, 1, a, e, p)
    /\ nreq' = nreq + 1

ThrForgot ==
    /\ Quiet /\ nreq < MaxThrReq
    /\ \E a \in Bearers, e \in ThrEmails : StartForgot(FirstFree, 1, a, e)
    /\ nreq' = nreq + 1

NextThr ==
    \/ ThrLogin \/ ThrForgot
    \/ DoThrottleGet \/ DoThrottleSet \/ DoLoginBody \/ DoForgotBody \/ DoForgotStore

SpecThr == InitThr /\ [][NextThr]_vars

\* --- rate limiter, requests in flight together ----------------------------------
ThrRaceLogin ==
    /\ SomeFree /\ nreq < MaxThrRaceReq
    /\ \E e \in {1, 4} : StartLogin(FirstFree, 1, NoAuth, e, 2)
    /\ nreq' = nreq + 1

NextThrRace == ThrRaceLogin \/ DoThrottleGet \/ DoThrottleSet \/ DoLoginBody

SpecThrRace == Init /\ [][NextThrRace]_vars

(***************************************************************************)
(* Properties                                                              *)
(***************************************************************************)
RefreshDone(s) == Done(s) /\ slots[s].op = "refresh"
ResetCall(s)   == slots[s].op = "reset"
Throttled(s)   == Done(s) /\ slots[s].op \in {"login", "forgot"}
HasEmail(s)    == slots[s].email \notin {NoEmail, Blank}
Resolvable(t)  == RedisGet(t) # 0
Ceiling(s)     == num_requests(ThrottlesOf(slots[s].op)[1])

\* C1: of the refresh requests that present the same refresh token and were all
\* received while it was still acceptable (so they are handled concurrently), exactly
\* one is answered 200 with a new pair and the others are rejected.
C1_ExactlyOneRotates ==
    \A s1, s2 \in Slots :
        (s1 # s2 /\ RefreshDone(s1) /\ RefreshDone(s2) /\ slots[s1].tok = slots[s2].tok
              /\ slots[s1].live /\ slots[s2].live)
        => Cardinality({x \in {s1, s2} : slots[x].status = 200}) = 1

\* C2: of the verify_and_consume_token calls on the same stored reset token that all
\* began while it still resolved, exactly one returns the user and the others None.
C2_ExactlyOneConsumes ==
    \A s1, s2 \in Slots :
        (s1 # s2 /\ Done(s1) /\ Done(s2) /\ ResetCall(s1) /\ ResetCall(s2)
              /\ slots[s1].tok = slots[s2].tok /\ slots[s1].live /\ slots[s2].live)
        => Cardinality({x \in {s1, s2} : slots[x].ret # 0}) = 1

\* C3: no step removes a jti from the blacklist, and a refresh request that presents
\* a jti which was blacklisted when it arrived is answered 401.
C3_BlacklistPermanent ==
    /\ [][blacklist \subseteq blacklist']_vars
    /\ [](\A s \in Slots : (RefreshDone(s) /\ slots[s].bl) => slots[s].status = 401)

\* C4: a refresh with a token that has not been rotated yet (R1 from login, or the R2
\* a rotation returned) is answered 200 with a new refresh token different from the one
\* presented; a refresh with a token that was already rotated is answered 401.
C4_RotationScenario ==
    \A s \in Slots :
        (RefreshDone(s) /\ IsJti(slots[s].tok)) =>
            /\ slots[s].live => (slots[s].status = 200 /\ IsJti(slots[s].out)
                                  /\ slots[s].out # slots[s].tok)
            /\ ~slots[s].live => slots[s].status = 401

\* C5: a reset token that was consumed, has expired or was invalidated does not
\* resolve again: once a stored token does not resolve it never does, a token that a
\* verify_and_consume_token call returned a user for does not resolve, and a call that
\* begins when the token does not resolve returns None.
C5_DeadTokenStaysDead ==
    /\ [][\A t \in 1..Len(store) : ~Resolvable(t) => ~Resolvable(t)']_vars
    /\ [](\A s \in Slots : (ResetCall(s) /\ slots[s].ret # 0) => ~Resolvable(slots[s].tok))
    /\ [](\A s \in Slots : (ResetCall(s) /\ ~slots[s].live) => slots[s].ret = 0)

\* C5 witness: one call consumed a token and a later call on the same token, begun
\* when it no longer resolved, returned None.
C5_Witness ==
    \E s1, s2 \in Slots :
        /\ s1 # s2 /\ Done(s1) /\ Done(s2) /\ ResetCall(s1) /\ ResetCall(s2)
        /\ slots[s1].tok = slots[s2].tok /\ slots[s1].ret # 0
        /\ ~slots[s2].live /\ slots[s2].ret = 0 /\ slots[s2].status = 500

\* C6: once a logout has been answered 200 for a refresh token, a refresh request
\* arriving with that token is answered 401.
C6_LogoutThenRefresh ==
    \A s \in Slots : (RefreshDone(s) /\ slots[s].lo) => slots[s].status = 401

\* C7: a login request that arrives when its caller address has sent 5 or more login
\* requests in the last 60 seconds is answered 429 with a retry-after above 0.
C7_SixthLoginDenied ==
    \A s \in Slots :
        (Done(s) /\ slots[s].op = "login" /\ slots[s].prior >= 5)
        => (slots[s].status = 429 /\ slots[s].wait > 0)

\* C8: for every throttle key, the requests admitted within one window of the scope's
\* length never number more than the scope's ceiling.
C8_CeilingHolds ==
    \A k \in ThrottleKeys : \A i \in 1..Len(admitted[k]) :
        Cardinality({j \in 1..Len(admitted[k]) :
                        /\ admitted[k][j] <= admitted[k][i]
                        /\ admitted[k][j] > admitted[k][i] - duration(k.scope)})
            <= num_requests(k.scope)

\* C9 as stated: a login or forgot-password request carrying an e-mail is admitted
\* exactly when the counter of its hashed e-mail and the anon counter of its address
\* are both below their ceilings.
C9_BothDimensions ==
    \A s \in Slots :
        (Throttled(s) /\ HasEmail(s)) =>
            (slots[s].status # 429 <=>
                (slots[s].cE < Ceiling(s) /\ slots[s].cA < num_requests("anon")))

\* C9 amended: the same for requests of unauthenticated callers.
C9_BothDimensionsAnonymous ==
    \A s \in Slots :
        (Throttled(s) /\ HasEmail(s) /\ slots[s].auth = NoAuth) =>
            (slots[s].status # 429 <=>
                (slots[s].cE < Ceiling(s) /\ slots[s].cA < num_requests("anon")))

\* C9 witness: an unauthenticated request was refused on its e-mail counter alone.
C9_Witness ==
    \E s \in Slots :
        /\ Throttled(s) /\ HasEmail(s) /\ slots[s].auth = NoAuth
        /\ slots[s].cE >= Ceiling(s) /\ slots[s].cA < num_requests("anon")
        /\ slots[s].status = 429

\* C10 as stated: a login or forgot-password request without an e-mail is refused
\* exactly when a counter keyed by its caller address (the endpoint's scope or anon)
\* is at its ceiling.
C10_AddressOnly ==
    \A s \in Slots :
        (Throttled(s) /\ slots[s].email = NoEmail) =>
            (slots[s].status = 429 <=>
                (slots[s].cIp >= Ceiling(s) \/ slots[s].cA >= num_requests("anon")))

\* C10 amended: the same for requests of unauthenticated callers.
C10_AddressOnlyAnonymous ==
    \A s \in Slots :
        (Throttled(s) /\ slots[s].email = NoEmail /\ slots[s].auth = NoAuth) =>
            (slots[s].status = 429 <=>
                (slots[s].cIp >= Ceiling(s) \/ slots[s].cA >= num_requests("anon")))

\* C10 witness: an unauthenticated request without e-mail was refused on the counter
\* its endpoint keeps for the caller address.
C10_Witness ==
    \E s \in Slots :
        /\ Throttled(s) /\ slots[s].email = NoEmail /\ slots[s].auth = NoAuth
        /\ slots[s].cIp >= Ceiling(s) /\ slots[s].cA < num_requests("anon")
        /\ slots[s].status = 429

C12_TtlBoundary ==
    \A s \in Slots :
        (Done(s) /\ ResetCall(s) /\ slots[s].had) =>
            LET T == store[slots[s].tok].gen
            IN /\ slots[s].at <= T + (token_ttl - 1) =>
                     (slots[s].status = 200 /\ slots[s].ret = store[slots[s].tok].uid)
               /\ slots[s].at >= T + (token_ttl + 1) =>
                     (slots[s].status = 500 /\ slots[s].ret = 0)

\* C12 witness: a token was rejected exactly 601 s after it was generated, after
\* another token had been consumed exactly 599 s after its generation (the password of
\* its user is the new one).
C12_Witness ==
    \E s \in Slots : \E t1 \in 1..Len(store) :
        /\ Done(s) /\ ResetCall(s) /\ slots[s].had
        /\ slots[s].at = store[slots[s].tok].gen + token_ttl + 1
        /\ slots[s].status = 500 /\ slots[s].ret = 0
        /\ t1 # slots[s].tok /\ store[t1].put /\ ~store[t1].live
        /\ users[store[t1].uid].pw = 2
        /\ store[t1].gen = store[slots[s].tok].gen

\* C13: a forgot-password request answered 200 returns a token that was stored in
\* Redis, and one whose handler found Redis unavailable is answered 500 without a token.
C13_TokenStoredOrFail ==
    \A s \in Slots :
        (Done(s) /\ slots[s].op = "forgot") =>
            /\ slots[s].status = 200 => (IsResetTok(slots[s].out) /\ store[slots[s].out].put)
            /\ slots[s].down => (slots[s].status = 500 /\ slots[s].out = 0)

\* C14: a reset-password request whose handler found Redis unavailable is answered
\* with an error and has changed no password.
C14_ResetFailsClosed ==
    \A s \in Slots :
        (Done(s) /\ ResetCall(s) /\ slots[s].down) =>
            (slots[s].status # 200 /\ slots[s].ret = 0)

LogoutDone(s) == Done(s) /\ slots[s].op = "logout" /\ slots[s].user # 0
LogoutStep(s) == slots[s].op = "logout" /\ slots[s].pc = "logout" /\ slots'[s].pc = "done"

C16_ForeignTokenRejected ==
    \A s \in Slots :
        (LogoutDone(s) /\ IsJti(slots[s].tok) /\ minted[slots[s].tok].user # slots[s].user)
        => (slots[s].status = 400 /\ (slots[s].tok \in blacklist => slots[s].bl))

\* C17: a logout whose refresh token is malformed, or was already blacklisted by an
\* earlier logout, is answered 400.
C17_BadTokenLogoutRejected ==
    \A s \in Slots :
        (LogoutDone(s) /\ (slots[s].tok = Malformed \/ (slots[s].bl /\ slots[s].lo)))
        => slots[s].status = 400

C19_LogoutOnlyItsToken ==
    /\ [][\A s \in Slots : LogoutStep(s) => (blacklist' \ blacklist) \subseteq {slots[s].tok}]_vars
    /\ [](\A s \in Slots : (RefreshDone(s) /\ slots[s].live) => slots[s].status = 200)

\* C19 witness: after a logout blacklisted one refresh token of a user, a refresh with
\* another token of the same user was answered 200.
C19_Witness ==
    \E s \in Slots : \E t \in loggedOut \cap blacklist :
        /\ RefreshDone(s) /\ IsJti(slots[s].tok) /\ slots[s].status = 200
        /\ t # slots[s].tok /\ minted[t].user = minted[slots[s].tok].user
        /\ slots[s].tok \notin loggedOut

\* C20: a refresh request with a refresh field that is malformed, expired or
\* blacklisted is answered 401 with responseCode "09".
C20_UniformRefreshError ==
    \A s \in Slots :
        (RefreshDone(s) /\ slots[s].tok # Blank /\ ~slots[s].live)
        => (slots[s].status = 401 /\ slots[s].code = "09")

\* C21: a reset-password request that passed the throttle and presents a token that
\* does not resolve when verification begins (unknown, expired or already consumed)
\* is answered 400 and changes no password.
C21_DeadTokenIs400 ==
    \A s \in Slots :
        (Done(s) /\ ResetCall(s) /\ slots[s].tok # Blank /\ slots[s].status # 429
              /\ ~slots[s].live /\ ~slots[s].down)
        => (slots[s].status = 400 /\ slots[s].ret = 0)

\* the body is the service's envelope (responseCode, responseDescription, data) and not
\* DRF's {"detail": ...} or Django's error page
HasEnvelope(s) == slots[s].code \notin {"detail", "none"}

\* C22: every response has the envelope, and its responseCode is "00" exactly when
\* the request succeeded (status 200).
C22_EnvelopeEverywhere ==
    \A s \in Slots :
        Done(s) => (HasEnvelope(s) /\ (slots[s].code = "00" <=> slots[s].status = 200))

\* C23: a refresh request that arrives 7 days or more after its refresh token was
\* issued is not answered 200 and mints nothing, and a request to the protected
\* endpoint that arrives 1 hour or more after its access token was issued is answered
\* 401, whether or not the token was ever blacklisted.
C23_RejectedAfterExpiry ==
    \A s \in Slots :
        /\ (RefreshDone(s) /\ IsJti(slots[s].tok)
               /\ slots[s].at >= minted[slots[s].tok].iat + RefreshLifetime)
           => (slots[s].status # 200 /\ slots[s].out = 0)
        /\ (Done(s) /\ slots[s].op = "protected" /\ slots[s].auth # NoAuth
               /\ slots[s].at >= slots[s].auth.iat + AccessLifetime)
           => slots[s].status = 401

\* C23 witness: a refresh token that was never blacklisted was refused exactly 7 days
\* after it was issued, and an access token exactly 1 hour after it was issued.
C23_Witness ==
    \E s1, s2 \in Slots :
        /\ RefreshDone(s1) /\ IsJti(slots[s1].tok) /\ slots[s1].tok \notin blacklist
        /\ slots[s1].at = minted[slots[s1].tok].iat + RefreshLifetime
        /\ slots[s1].status # 200
        /\ Done(s2) /\ slots[s2].op = "protected" /\ slots[s2].auth # NoAuth
        /\ slots[s2].at = slots[s2].auth.iat + AccessLifetime
        /\ slots[s2].status = 401

\* a finished request of an unauthenticated caller that the throttles let through
Answered(s, op) ==
    Done(s) /\ slots[s].op = op /\ slots[s].auth = NoAuth /\ slots[s].status # 429 /\ HasEmail(s)

\* C24: two forgot-password requests of unauthenticated callers, one with the e-mail of
\* an active user and one with an e-mail of nobody, get the same status and
\* responseCode.
C24_ForgotHidesExistence ==
    \A s1, s2 \in Slots :
        (Answered(s1, "forgot") /\ Answered(s2, "forgot")
              /\ ActiveUserByEmail(slots[s1].email) # 0 /\ ActiveUserByEmail(slots[s2].email) = 0)
        => (slots[s1].status = slots[s2].status /\ slots[s1].code = slots[s2].code)

\* C25: two failed logins, one with an e-mail of nobody and one with a user's e-mail
\* and a wrong password, get the same status and response code.
C25_LoginFailureUniform ==
    \A s1, s2 \in Slots :
        (Answered(s1, "login") /\ Answered(s2, "login")
              /\ slots[s1].pw # Blank /\ slots[s2].pw # Blank
              /\ UserByEmailExact(slots[s1].email) = 0
              /\ UserByEmailExact(slots[s2].email) # 0
              /\ users[UserByEmailExact(slots[s2].email)].pw # slots[s2].pw)
        => (slots[s1].status = slots[s2].status /\ slots[s1].code = slots[s2].code)

\* C25 witness: both kinds of failed login have been answered, with 401.
C25_Witness ==
    \E s1, s2 \in Slots :
        /\ Answered(s1, "login") /\ UserByEmailExact(slots[s1].email) = 0 /\ slots[s1].pw # Blank
        /\ Answered(s2, "login") /\ UserByEmailExact(slots[s2].email) # 0
        /\ slots[s2].pw # Blank /\ users[UserByEmailExact(slots[s2].email)].pw # slots[s2].pw
        /\ slots[s1].status = 401 /\ slots[s2].status = 401

\* slot 1 holds the last reset, which succeeded for the user that e-mail e names and
\* replaced a different password
LastResetFor(e) ==
    /\ Done(1) /\ ResetCall(1) /\ slots[1].status = 200
    /\ slots[1].ret = UserByEmailExact(e) /\ slots[1].prior # slots[1].pw

\* C26: a login for user U that the throttles admit, answered while the last reset
\* succeeded for U with new password P, succeeds with P and gets 401 with the
\* password that P replaced.
C26_NewPasswordOnly ==
    [][(LastResetFor(slots[2].email) /\ slots[2].pc = "login" /\ slots'[2].pc = "done")
       => /\ (slots[2].pw = slots[1].pw => (slots'[2].status = 200 /\ slots'[2].out # 0))
          /\ (slots[2].pw = slots[1].prior => slots'[2].status = 401)]_vars

\* C26 witness: three requests were made, the reset replaced the password, and the
\* login with the old password got 401.
C26_Witness ==
    /\ nreq = 3 /\ LastResetFor(slots[2].email)
    /\ Done(2) /\ slots[2].op = "login" /\ slots[2].pw = slots[1].prior /\ slots[2].status = 401

\* C27: the step of a reset that looks up the user of a stored token and finds the
\* user inactive ends the request without success, changes no password and leaves the
\* token deleted from the store.
C27_GoneUserRejected ==
    [][\A s \in Slots :
          (slots[s].pc = "reset_consume" /\ slots'[s] # slots[s] /\ redisUp
                /\ ~users[slots[s].uid].active)
          => /\ slots'[s].pc = "done" /\ slots'[s].status # 200
             /\ users' = users
             /\ ~store'[slots[s].tok].live]_vars

\* C27 witness: a reset whose token resolved was refused for an inactive user; the
\* password is the initial one and the token is gone.
C27_Witness ==
    \E s \in Slots :
        /\ Done(s) /\ ResetCall(s) /\ slots[s].live /\ ~slots[s].down /\ slots[s].status = 500
        /\ slots[s].uid # 0 /\ ~users[slots[s].uid].active /\ users[slots[s].uid].pw = 1
        /\ IsResetTok(slots[s].tok) /\ ~store[slots[s].tok].live

\* C28: the token presented by a refresh that was answered with a new pair is in the
\* blacklist, in every state from the answer on.
C28_RotatedIsBlacklisted ==
    \A s \in Slots :
        (RefreshDone(s) /\ slots[s].status = 200 /\ slots[s].out # 0)
        => (IsJti(slots[s].tok) /\ slots[s].tok \in blacklist /\ slots[s].out # slots[s].tok)

\* C28 witness: a refresh minted a new pair from a token that is now blacklisted, and
\* the pair it minted was itself rotated later or earlier (two blacklisted tokens).
C28_Witness ==
    \E s \in Slots :
        /\ RefreshDone(s) /\ slots[s].status = 200 /\ slots[s].out # 0
        /\ slots[s].tok \in blacklist /\ Cardinality(blacklist) >= 2

\* start of the fixed window that the admitted requests h (oldest first) have opened
\* last: the first request opens one, and so does each request that arrives once
\* d seconds have passed since the current window opened; -1 when h is empty
RECURSIVE WindowStart(_, _, _)
WindowStart(h, d, w) ==
    IF h = <<>> THEN w
    ELSE WindowStart(Tail(h), d, IF w = -1 \/ Head(h) >= w + d THEN Head(h) ELSE w)

\* requests counted against the fixed window that is open at time t
FixedCount(h, d, t) ==
    LET w == WindowStart(h, d, -1)
    IN IF w = -1 \/ t >= w + d THEN 0 ELSE Cardinality({x \in 1..Len(h) : h[x] >= w})

SlidingCount(h, d, t) == Cardinality({x \in 1..Len(h) : h[x] > t - d})

LimiterFailed(s) ==
    Done(s) /\ slots[s].op \in {"login", "forgot", "reset"} /\ slots[s].code = "none"

\* the request passed the throttles and its view method found Redis unreachable
LimiterPassed(s) ==
    Done(s) /\ slots[s].op \in {"forgot", "reset"} /\ slots[s].down /\ slots[s].code # "none"

\* C30: of the requests made while Redis is unreachable, not one ends in the throttles
\* while another one passes them.
C30_UniformOutage ==
    ~ \E s1, s2 \in Slots : LimiterFailed(s1) /\ LimiterPassed(s2)

\* the token of the reset request in slot s was stored, not deleted and not expired
\* when the view method began, and its value is user u
TokenGoodFor(s, u) ==
    /\ IsResetTok(slots[s].tok) /\ slots[s].had
    /\ store[slots[s].tok].put /\ store[slots[s].tok].exp > slots[s].at
    /\ store[slots[s].tok].uid = u

\* C31: every step that sets a password is a step of a reset-password request whose
\* token was stored, unexpired and mapped to that user when the request was handled;
\* no other step changes a password.
C31_OnlyWithGoodToken ==
    [][/\ \A s \in Slots :
              (ResetCall(s) /\ slots[s].ret = 0 /\ slots'[s].ret # 0 /\ slots'[s].op = "reset")
              => TokenGoodFor(s, slots'[s].ret)
       /\ \A u \in Users :
              users'[u].pw # users[u].pw
              => \E s \in Slots : /\ slots[s].pc = "reset_consume" /\ slots'[s].ret = u
                                   /\ TokenGoodFor(s, u)]_vars

\* C31 witness: a reset was answered 200 after it replaced the password of the user
\* that its stored, unexpired token named.
C31_Witness ==
    \E s \in Slots :
        /\ Done(s) /\ ResetCall(s) /\ slots[s].status = 200 /\ slots[s].ret # 0
        /\ TokenGoodFor(s, slots[s].ret) /\ users[slots[s].ret].pw = slots[s].pw
        /\ slots[s].pw # slots[s].prior

\* the reset request in slot s has set the password of user u and is not answered yet
Resetting(s, u) ==
    ResetCall(s) /\ InFlight(s) /\ slots[s].ret = u /\ slots[s].pc \in {"reset_scan", "reset_invalidate", "reset_delete"}

\* C32: two reset-password requests in flight at the same time with different tokens
\* of one user have not both set the password.
C32_OneOfSeveralTokens ==
    \A s1, s2 \in Slots : \A u \in Users :
        (s1 # s2 /\ slots[s1].tok # slots[s2].tok) => ~(Resetting(s1, u) /\ Resetting(s2, u))

\* C33: the step that answers a reset-password request 400 for invalid input (a missing
\* field, a mismatched or weak password) changes neither the token store nor a
\* password, so a presented token that was resolvable still is.
C33_RejectedInputKeepsToken ==
    [][\A s \in Slots :
          (ResetCall(s) /\ slots[s].pc = "reset" /\ slots'[s].pc = "done" /\ slots'[s].status = 400)
          => /\ store' = store /\ users' = users
             /\ Resolvable(slots[s].tok) => Resolvable(slots[s].tok)']_vars

\* C33 witness: a reset with a stored token and an invalid password was answered 400
\* and the token is still resolvable.
C33_Witness ==
    \E s \in Slots :
        /\ Done(s) /\ ResetCall(s) /\ slots[s].status = 400 /\ slots[s].pw = Blank
        /\ Resolvable(slots[s].tok)

\* the reset tokens that resolve
ResolvableToks == {t \in 1..Len(store) : Resolvable(t)}

\* the step of invalidate_user_tokens in slot s that issues DEL and counts it
DeleteStep(s) ==
    ResetCall(s) /\ slots[s].pc = "reset_delete" /\ slots'[s].pc = "reset_invalidate"

\* the DEL of slot s leaves every token of another user stored, with its value, and
\* resolvable if it was
OtherUsersUntouched(s) ==
    \A t \in 1..Len(store) :
        store[t].uid # slots[s].uid => (store'[t] = store[t] /\ (Resolvable(t) => Resolvable(t)'))

\* what the DEL of slot s adds to deleted_count is the number of the user's tokens
\* that it removed
CountIsRemoved(s) ==
    slots'[s].cnt - slots[s].cnt
        = Cardinality({t \in ResolvableToks \ ResolvableToks' : store[t].uid = slots[s].uid})

\* C34: each DEL of invalidate_user_tokens(U) leaves the tokens of other users as they
\* are, stored and resolvable, and the count it adds is the number of tokens of U that
\* it removed.
C34_OnlyOwnAndCounted ==
    [][\A s \in Slots : DeleteStep(s) => (OtherUsersUntouched(s) /\ CountIsRemoved(s))]_vars

\* C35: no step of a reset-password request changes the refresh-token registry, and a
\* refresh that arrives after a reset was answered 200 for user U, with a token of U
\* that verifies and was not blacklisted, is accepted for rotation.
C35_ResetKeepsRegistry ==
    [][/\ \A s \in Slots :
              (slots'[s].op = "reset" /\ slots'[s] # slots[s])
              => (minted' = minted /\ outstanding' = outstanding /\ blacklist' = blacklist)
       /\ (/\ Done(1) /\ ResetCall(1) /\ slots[1].status = 200
           /\ slots[2].op = "refresh" /\ slots[2].pc = "validate" /\ slots'[2].pc # "validate"
           /\ IsJti(slots[2].tok) /\ minted[slots[2].tok].user = slots[1].ret
           /\ Verifies(slots[2].tok) /\ ~slots[2].bl)
          => slots'[2].pc = "rotate"]_vars

\* C35 witness: the reset of slot 1 was answered 200 for a user, and a refresh that
\* arrived afterwards (requests arrive one at a time) with a token issued to that user
\* has passed validation and is about to rotate.
C35_Witness ==
    /\ Done(1) /\ ResetCall(1) /\ slots[1].status = 200
    /\ slots[2].op = "refresh" /\ slots[2].pc = "rotate"
    /\ minted[slots[2].tok].user = slots[1].ret

\* C36: when a login or forgot-password request of an unauthenticated caller carrying
\* an e-mail has been answered 429, the counter of its e-mail and the anon counter of
\* its address stand where they stood when the request arrived.
C36_DeniedConsumesNothing ==
    \A s \in Slots :
        (Throttled(s) /\ HasEmail(s) /\ slots[s].auth = NoAuth /\ slots[s].status = 429)
        => /\ Count(get_cache_key(ThrottlesOf(slots[s].op)[1], slots[s])) = slots[s].cE
           /\ Count(get_cache_key("anon", slots[s])) = slots[s].cA

\* C37: a protected request that arrives with an issued access token before the
\* token's expiry is answered 200 for the token's user, whatever logouts were made
\* before; and no step of a logout changes the set of issued access tokens.
C37_LogoutKeepsAccess ==
    /\ [](\A s \in Slots :
              (Done(s) /\ slots[s].op = "protected" /\ slots[s].auth \in access
                    /\ slots[s].at < slots[s].auth.exp)
              => (slots[s].status = 200 /\ slots[s].out = slots[s].auth.user))
    /\ [][\A s \in Slots : LogoutStep(s) => access' = access]_vars

\* C37 witness: a logout made with an access token was answered 200 and blacklisted a
\* refresh token of that user; the protected request that arrived afterwards with the
\* same access token has been authenticated.
C37_Witness ==
    /\ LogoutDone(1) /\ slots[1].status = 200 /\ IsJti(slots[1].tok)
    /\ slots[1].tok \in blacklist /\ minted[slots[1].tok].user = slots[1].auth.user
    /\ slots[2].op = "protected" /\ slots[2].pc = "protected" /\ slots[2].auth = slots[1].auth

====
